---- MODULE Spec2Model ----
(***************************************************************************)
(* Model of ml/experiments/common/utils.py of kubeml: the retry decorator, *)
(* check_stderr, create_function, get_title and get_hash.                  *)
(*                                                                         *)
(* Delays are counted in tenths of a second (initial_wait = 0.1 is 1).     *)
(* A Python str is a sequence of code points, a bytes object a sequence of *)
(* integers 0..255.                                                        *)
(***************************************************************************)
EXTENDS Integers, Sequences, FiniteSets, TLC

\* ------------------------------------------------------------------ bounds
MaxTries == 3
MaxCalls == 2
ConcTries == 2
MaxNameLen == 3
MaxFileLen == 2
MaxErrLen == 2
MaxTitleLen == 1
MaxHashCalls == 2

\* ------------------------------------------------------- the retry wrapper
VARIABLES
    total_tries,     \* retry(...) parameter, captured by the closure
    initial_wait,    \* retry(...) parameter
    backoff_factor,  \* retry(...) parameter
    exceptions,      \* retry(...) parameter: the classes that trigger a retry
    threads,         \* the callers of the decorated function
    pc,              \* per caller: position in func_with_retries
    args,            \* per caller: *args, **kwargs of the running call
    _tries,          \* per caller: local _tries
    _delay,          \* per caller: local _delay
    trace,           \* per caller: what the running call printed, invoked and slept
    result,          \* per caller: how the call ended
    ncalls           \* per caller: calls of func_with_retries started so far

retryVars == <<total_tries, initial_wait, backoff_factor, exceptions, threads,
               pc, args, _tries, _delay, trace, result, ncalls>>

\* ------------------------------------- check_stderr and create_function
VARIABLES
    cmd_pc,      \* position in create_function or check_stderr
    op,          \* the operation the caller is in
    name,        \* create_function parameter
    file,        \* create_function parameter
    command,     \* local command of create_function
    res,         \* the subprocess.CompletedProcess at hand
    events,      \* what was printed, executed and checked, in order
    cmd_result   \* how the operation ended

cmdVars == <<cmd_pc, op, name, file, command, res, events, cmd_result>>

\* ---------------------------------------------------------------- get_hash
VARIABLES
    hash_calls,  \* the calls of get_hash so far: title, result, and the
                 \* other operation the caller was in at that time
    title_call   \* the last call of get_title: descriptor, result, and the
                 \* other operation the caller was in at that time

hashVars == <<hash_calls, title_call>>

HashInit == hash_calls = <<>> /\ title_call = <<>>

vars == <<retryVars, cmdVars, hashVars>>

Callers == {1, 2}
ArgValues == {"a1", "a2"}
ReturnValues == {"v1", "v2"}
\* Exception classes the wrapped function raises, and their base classes.
ErrorKinds == {"KeyError", "LookupError", "ValueError"}
WaitChoices == {1, 5}
FactorChoices == {2, 3}
ExceptionChoices == {{"LookupError"}, {"KeyError", "ValueError"}}

Bases(k) ==
    CASE k = "KeyError" -> {"KeyError", "LookupError", "Exception"}
      [] k = "LookupError" -> {"LookupError", "Exception"}
      [] k = "ValueError" -> {"ValueError", "Exception"}
      [] OTHER -> {k}

\* A handler that catches every error.
Caught_any(k, excs) == TRUE

\* `except exceptions as e`: e is an instance of one of the classes.
Caught(k, excs) == Bases(k) \cap excs # {}

\* What one invocation of f does: return a value or raise an error.
Outcomes == [how : {"return"}, val : ReturnValues]
            \cup [how : {"raise"}, val : ErrorKinds]

None == "None"

\* A counter that starts one too high.
InitialTries_plus2(t) == t + 2

\* A counter that starts at total_tries.
InitialTries_same(t) == t

\* line 20
InitialTries(t) == t + 1

\* A loop test that stops one pass early.
LoopRuns_above2(n) == n > 2

\* A loop test that lets the counter reach 1 inside the loop.
LoopRuns_positive(n) == n > 0

\* line 21
LoopRuns(n) == n > 1

\* An attempt number that counts from 0.
TryNumber_fromZero(t, n) == t + 1 - n

\* line 23
TryNumber(t, n) == t + 2 - n

\* An exhaustion test against 0 instead of 1.
Exhausted_atZero(n) == n = 0

\* An exhaustion test that never holds.
Exhausted_never(n) == FALSE

\* line 28
Exhausted(n) == n = 1

\* A delay that grows by addition.
NextDelay_added(d, b) == d + b

\* A delay that is multiplied twice after each sleep.
NextDelay_twice(d, b) == d * b * b

\* line 39
NextDelay(d, b) == d * b

Idle == [c \in Callers |-> "idle"]

RetryInit ==
    /\ total_tries \in 0..MaxTries
    /\ initial_wait \in WaitChoices
    /\ backoff_factor \in FactorChoices
    /\ exceptions \in ExceptionChoices
    /\ threads = {1}
    /\ pc = Idle
    /\ args = [c \in Callers |-> None]
    /\ _tries = [c \in Callers |-> 0]
    /\ _delay = [c \in Callers |-> 0]
    /\ trace = [c \in Callers |-> <<>>]
    /\ result = [c \in Callers |-> <<"none">>]
    /\ ncalls = [c \in Callers |-> 0]

\* A call whose delay lives in the decorator's closure: starting a call
\* resets the one delay that every call in progress uses.
Call_shared(c, a) ==
    /\ pc[c] = "idle"
    /\ ncalls[c] < MaxCalls
    /\ ncalls' = [ncalls EXCEPT ![c] = @ + 1]
    /\ args' = [args EXCEPT ![c] = a]
    /\ _tries' = [_tries EXCEPT ![c] = InitialTries(total_tries)]
    /\ _delay' = [d \in Callers |-> initial_wait]
    /\ trace' = [trace EXCEPT ![c] = <<>>]
    /\ IF LoopRuns(InitialTries(total_tries))
       THEN /\ pc' = [pc EXCEPT ![c] = "try"]
            /\ result' = [result EXCEPT ![c] = <<"none">>]
       ELSE /\ pc' = [pc EXCEPT ![c] = "done"]
            /\ result' = [result EXCEPT ![c] = <<"return", None>>]
    /\ UNCHANGED <<total_tries, initial_wait, backoff_factor, exceptions, threads>>
    /\ UNCHANGED <<cmdVars, hashVars>>

\* func_with_retries(*args, **kwargs), line 20 and the first test of line 21.
Call(c, a) ==
    /\ pc[c] = "idle"
    /\ ncalls[c] < MaxCalls
    /\ ncalls' = [ncalls EXCEPT ![c] = @ + 1]
    /\ args' = [args EXCEPT ![c] = a]
    /\ _tries' = [_tries EXCEPT ![c] = InitialTries(total_tries)]
    /\ _delay' = [_delay EXCEPT ![c] = initial_wait]
    /\ trace' = [trace EXCEPT ![c] = <<>>]
    /\ IF LoopRuns(InitialTries(total_tries))
       THEN /\ pc' = [pc EXCEPT ![c] = "try"]
            /\ result' = [result EXCEPT ![c] = <<"none">>]
       ELSE \* the loop body never runs: the function ends without a return
            /\ pc' = [pc EXCEPT ![c] = "done"]
            /\ result' = [result EXCEPT ![c] = <<"return", None>>]
    /\ UNCHANGED <<total_tries, initial_wait, backoff_factor, exceptions, threads>>
    /\ UNCHANGED <<cmdVars, hashVars>>

\* Lines 22-37: one pass of the loop body up to the sleep.
Attempt(c, o) ==
    /\ pc[c] = "try"
    /\ LET announced == Append(trace[c], <<"try", TryNumber(total_tries, _tries[c])>>)
           invoked == Append(announced, <<"invoke", args[c], o>>)
       IN  IF o.how = "return"
           THEN \* line 24
                /\ trace' = [trace EXCEPT ![c] = invoked]
                /\ pc' = [pc EXCEPT ![c] = "done"]
                /\ result' = [result EXCEPT ![c] = <<"return", o.val>>]
                /\ UNCHANGED _tries
           ELSE IF ~Caught(o.val, exceptions)
           THEN \* no handler: the error leaves the function
                /\ trace' = [trace EXCEPT ![c] = invoked]
                /\ pc' = [pc EXCEPT ![c] = "done"]
                /\ result' = [result EXCEPT ![c] = <<"raise", o.val>>]
                /\ UNCHANGED _tries
           ELSE \* lines 26-37
                /\ _tries' = [_tries EXCEPT ![c] = @ - 1]
                /\ IF Exhausted(_tries'[c])
                   THEN /\ trace' = [trace EXCEPT ![c] =
                                Append(invoked, <<"failed", total_tries, args[c]>>)]
                        /\ pc' = [pc EXCEPT ![c] = "done"]
                        /\ result' = [result EXCEPT ![c] = <<"raise", o.val>>]
                   ELSE /\ trace' = [trace EXCEPT ![c] =
                                Append(invoked, <<"retrying", o.val, _delay[c], args[c]>>)]
                        /\ pc' = [pc EXCEPT ![c] = "sleep"]
                        /\ UNCHANGED result
    /\ UNCHANGED <<total_tries, initial_wait, backoff_factor, exceptions, threads,
                   args, _delay, ncalls>>
    /\ UNCHANGED <<cmdVars, hashVars>>

\* Lines 38-39 and the next test of line 21.
Sleep(c) ==
    /\ pc[c] = "sleep"
    /\ trace' = [trace EXCEPT ![c] = Append(@, <<"sleep", _delay[c]>>)]
    /\ _delay' = [_delay EXCEPT ![c] = NextDelay(@, backoff_factor)]
    /\ IF LoopRuns(_tries[c])
       THEN /\ pc' = [pc EXCEPT ![c] = "try"]
            /\ UNCHANGED result
       ELSE /\ pc' = [pc EXCEPT ![c] = "done"]
            /\ result' = [result EXCEPT ![c] = <<"return", None>>]
    /\ UNCHANGED <<total_tries, initial_wait, backoff_factor, exceptions, threads,
                   args, _tries, ncalls>>
    /\ UNCHANGED <<cmdVars, hashVars>>

\* The caller has its result or its error and may call again.
Finish(c) ==
    /\ pc[c] = "done"
    /\ ncalls[c] < MaxCalls
    /\ pc' = [pc EXCEPT ![c] = "idle"]
    /\ UNCHANGED <<total_tries, initial_wait, backoff_factor, exceptions, threads,
                   args, _tries, _delay, trace, result, ncalls>>
    /\ UNCHANGED <<cmdVars, hashVars>>


\* ------------------------------------- check_stderr and create_function
\* Characters a name or a file is made of; str.split() splits on whitespace.
Whitespace == {" ", "\t", "\n"}
NameAlphabet == {"a", " "}

RECURSIVE StringsUpTo(_, _)
StringsUpTo(alphabet, n) ==
    IF n = 0 THEN {<<>>}
    ELSE LET shorter == StringsUpTo(alphabet, n - 1)
         IN  shorter \cup {Append(w, ch) : w \in shorter, ch \in alphabet}

Myfn == <<"m", "y", "f", "n">>
CodeZip == <<"c", "o", "d", "e", ".", "z", "i", "p">>
TabName == <<"a", "\t", "b">>
NameChoices == StringsUpTo(NameAlphabet, MaxNameLen) \cup {Myfn, TabName}
FileChoices == StringsUpTo(NameAlphabet, MaxFileLen) \cup {CodeZip}

\* Bytes a process writes: "e", the two bytes of U+00E9, alone or together.
ByteAlphabet == {101, 195, 169}
StderrChoices == StringsUpTo(ByteAlphabet, MaxErrLen)
StdoutChoices == {<<>>, <<111, 107>>}
ReturnCodes == {0, 1}

Kubeml == <<"k", "u", "b", "e", "m", "l">>
Fn == <<"f", "n">>
Create == <<"c", "r", "e", "a", "t", "e">>
NameFlag == <<"-", "-", "n", "a", "m", "e">>
CodeFlag == <<"-", "-", "c", "o", "d", "e">>
Space == <<" ">>

\* line 65: f"kubeml fn create --name {name} --code {file}"
Format(n, f) ==
    Kubeml \o Space \o Fn \o Space \o Create \o Space \o NameFlag \o Space
        \o n \o Space \o CodeFlag \o Space \o f

\* str.split(" ") instead of str.split(): every single blank separates.
RECURSIVE SplitOnBlank(_, _, _, _)
SplitOnBlank(s, i, cur, acc) ==
    IF i > Len(s) THEN Append(acc, cur)
    ELSE IF s[i] = " " THEN SplitOnBlank(s, i + 1, <<>>, Append(acc, cur))
    ELSE SplitOnBlank(s, i + 1, Append(cur, s[i]), acc)

\* str.split(): runs of whitespace separate, none leads or trails a token.
RECURSIVE SplitFrom(_, _, _, _)
SplitFrom(s, i, cur, acc) ==
    IF i > Len(s) THEN (IF cur = <<>> THEN acc ELSE Append(acc, cur))
    ELSE IF s[i] \in Whitespace
         THEN SplitFrom(s, i + 1, <<>>, IF cur = <<>> THEN acc ELSE Append(acc, cur))
    ELSE SplitFrom(s, i + 1, Append(cur, s[i]), acc)

Split_blank(s) == SplitOnBlank(s, 1, <<>>, <<>>)

\* line 68: command.split()
Split(s) == SplitFrom(s, 1, <<>>, <<>>)

\* A continuation byte of UTF-8.
Cont(b) == b \in 128..191

\* bytes.decode(): strict UTF-8, the code points or a UnicodeDecodeError.
RECURSIVE DecodeFrom(_, _, _)
DecodeFrom(b, i, acc) ==
    IF i > Len(b) THEN [ok |-> TRUE, str |-> acc]
    ELSE IF b[i] < 128 THEN DecodeFrom(b, i + 1, Append(acc, b[i]))
    ELSE IF b[i] \in 194..223 /\ i + 1 <= Len(b) /\ Cont(b[i + 1])
         THEN DecodeFrom(b, i + 2, Append(acc, (b[i] - 192) * 64 + (b[i + 1] - 128)))
    ELSE IF /\ b[i] \in 224..239 /\ i + 2 <= Len(b)
            /\ Cont(b[i + 1]) /\ Cont(b[i + 2])
            /\ (b[i] = 224 => b[i + 1] >= 160)
            /\ (b[i] = 237 => b[i + 1] <= 159)
         THEN DecodeFrom(b, i + 3, Append(acc,
                  (b[i] - 224) * 4096 + (b[i + 1] - 128) * 64 + (b[i + 2] - 128)))
    ELSE IF /\ b[i] \in 240..244 /\ i + 3 <= Len(b)
            /\ Cont(b[i + 1]) /\ Cont(b[i + 2]) /\ Cont(b[i + 3])
            /\ (b[i] = 240 => b[i + 1] >= 144)
            /\ (b[i] = 244 => b[i + 1] <= 143)
         THEN DecodeFrom(b, i + 4, Append(acc,
                  (b[i] - 240) * 262144 + (b[i + 1] - 128) * 4096
                      + (b[i + 2] - 128) * 64 + (b[i + 3] - 128)))
    ELSE [ok |-> FALSE, str |-> <<>>]

Decode(b) == DecodeFrom(b, 1, <<>>)

\* A check that looks at the exit status instead of the standard error.
check_stderr_status(r) ==
    IF r.returncode = 0
    THEN [printed |-> <<>>, raised |-> "none"]
    ELSE IF Decode(r.stderr).ok
    THEN [printed |-> << <<"print", "error running command", r.args,
                           Decode(r.stderr).str>> >>,
          raised |-> "Exception"]
    ELSE [printed |-> <<>>, raised |-> "UnicodeDecodeError"]

\* check_stderr(res): what it prints and what it raises. The arguments of
\* print are evaluated first, so a failing decode prints nothing.
check_stderr(r) ==
    IF Len(r.stderr) = 0
    THEN [printed |-> <<>>, raised |-> "none"]
    ELSE IF Decode(r.stderr).ok
    THEN [printed |-> << <<"print", "error running command", r.args,
                           Decode(r.stderr).str>> >>,
          raised |-> "Exception"]
    ELSE [printed |-> <<>>, raised |-> "UnicodeDecodeError"]

ProcessOutcomes ==
    [args : {<<Kubeml, Fn>>}, returncode : ReturnCodes,
     stdout : StdoutChoices, stderr : StderrChoices]

NoProcess == [args |-> <<>>, returncode |-> 0, stdout |-> <<>>, stderr |-> <<>>]

CmdInit ==
    /\ cmd_pc = "idle"
    /\ op = "none"
    /\ name = <<>>
    /\ file = <<>>
    /\ command = <<>>
    /\ res = NoProcess
    /\ events = <<>>
    /\ cmd_result = <<"none">>

\* The default configuration of retry, for the runs that do not vary it.
RetryDefault ==
    /\ total_tries = 4
    /\ initial_wait = 5
    /\ backoff_factor = 2
    /\ exceptions = {"Exception"}
    /\ threads = {}
    /\ pc = Idle
    /\ args = [c \in Callers |-> None]
    /\ _tries = [c \in Callers |-> 0]
    /\ _delay = [c \in Callers |-> 0]
    /\ trace = [c \in Callers |-> <<>>]
    /\ result = [c \in Callers |-> <<"none">>]
    /\ ncalls = [c \in Callers |-> 0]

\* A direct call check_stderr(p), lines 56-59.
CheckStderrCall(p) ==
    /\ cmd_pc = "idle"
    /\ op' = "check_stderr"
    /\ res' = p
    /\ events' = check_stderr(p).printed
    /\ cmd_result' = IF check_stderr(p).raised = "none"
                     THEN <<"return", None>>
                     ELSE <<"raise", check_stderr(p).raised, "check_stderr">>
    /\ cmd_pc' = "done"
    /\ UNCHANGED <<name, file, command, retryVars, hashVars>>

\* create_function(n, f), lines 65-66.
CreateFunction(n, f) ==
    /\ cmd_pc = "idle"
    /\ op' = "create_function"
    /\ name' = n
    /\ file' = f
    /\ command' = Format(n, f)
    /\ events' = << <<"print", "Creating function", n>> >>
    /\ cmd_pc' = "run"
    /\ UNCHANGED <<res, cmd_result, retryVars, hashVars>>

\* line 68: the external command runs once and its outcome is captured.
SubprocessRun(rc, so, se) ==
    /\ cmd_pc = "run"
    /\ res' = [args |-> Split(command), returncode |-> rc, stdout |-> so, stderr |-> se]
    /\ events' = Append(events, <<"run", Split(command)>>)
    /\ cmd_pc' = "check"
    /\ UNCHANGED <<op, name, file, command, cmd_result, retryVars, hashVars>>

\* line 69: check_stderr(res).
CheckOutcome ==
    /\ cmd_pc = "check"
    /\ events' = Append(events, <<"check", res>>) \o check_stderr(res).printed
    /\ IF check_stderr(res).raised = "none"
       THEN /\ cmd_pc' = "confirm"
            /\ UNCHANGED cmd_result
       ELSE /\ cmd_pc' = "done"
            /\ cmd_result' = <<"raise", check_stderr(res).raised, "check_stderr">>
    /\ UNCHANGED <<op, name, file, command, res, retryVars, hashVars>>

\* line 71
Confirm ==
    /\ cmd_pc = "confirm"
    /\ events' = Append(events, <<"print", "function created">>)
    /\ cmd_pc' = "done"
    /\ cmd_result' = <<"return", None>>
    /\ UNCHANGED <<op, name, file, command, res, retryVars, hashVars>>

\* The operation is over; the caller goes on to the next one.
CmdReturn ==
    /\ cmd_pc = "done"
    /\ cmd_pc' = "idle"
    /\ op' = "none"
    /\ name' = <<>>
    /\ file' = <<>>
    /\ command' = <<>>
    /\ res' = NoProcess
    /\ events' = <<>>
    /\ cmd_result' = <<"none">>
    /\ UNCHANGED <<retryVars, hashVars>>

InitCmd == RetryDefault /\ CmdInit /\ HashInit

NextCmd ==
    \/ \E p \in ProcessOutcomes : CheckStderrCall(p)
    \/ \E n \in NameChoices, f \in FileChoices : CreateFunction(n, f)
    \/ \E rc \in ReturnCodes, so \in StdoutChoices, se \in StderrChoices :
           SubprocessRun(rc, so, se)
    \/ CheckOutcome
    \/ Confirm
    \/ CmdReturn

SpecCmd == InitCmd /\ [][NextCmd]_vars

\* ---------------------------------------------------------------- get_hash
\* A 32-bit word is a pair <<high 16 bits, low 16 bits>>.
RECURSIVE Xor16(_, _, _)
Xor16(x, y, n) ==
    IF n = 0 THEN 0
    ELSE ((x + y) % 2) + 2 * Xor16(x \div 2, y \div 2, n - 1)

RECURSIVE And16(_, _, _)
And16(x, y, n) ==
    IF n = 0 THEN 0
    ELSE ((x % 2) * (y % 2)) + 2 * And16(x \div 2, y \div 2, n - 1)

WXor(a, b) == <<Xor16(a[1], b[1], 16), Xor16(a[2], b[2], 16)>>
WAnd(a, b) == <<And16(a[1], b[1], 16), And16(a[2], b[2], 16)>>
WNot(a) == <<65535 - a[1], 65535 - a[2]>>
WAdd(a, b) ==
    <<(a[1] + b[1] + ((a[2] + b[2]) \div 65536)) % 65536, (a[2] + b[2]) % 65536>>

RotrSmall(w, n) ==
    <<(w[1] \div (2^n)) + ((w[2] % (2^n)) * (2^(16 - n))),
      (w[2] \div (2^n)) + ((w[1] % (2^n)) * (2^(16 - n)))>>
Rotr(w, n) == IF n < 16 THEN RotrSmall(w, n) ELSE RotrSmall(<<w[2], w[1]>>, n - 16)
Shr(w, n) ==
    <<w[1] \div (2^n), (w[2] \div (2^n)) + ((w[1] % (2^n)) * (2^(16 - n)))>>

BigSigma0(x) == WXor(WXor(Rotr(x, 2), Rotr(x, 13)), Rotr(x, 22))
BigSigma1(x) == WXor(WXor(Rotr(x, 6), Rotr(x, 11)), Rotr(x, 25))
SmallSigma0(x) == WXor(WXor(Rotr(x, 7), Rotr(x, 18)), Shr(x, 3))
SmallSigma1(x) == WXor(WXor(Rotr(x, 17), Rotr(x, 19)), Shr(x, 10))
Ch(x, y, z) == WXor(WAnd(x, y), WAnd(WNot(x), z))
Maj(x, y, z) == WXor(WXor(WAnd(x, y), WAnd(x, z)), WAnd(y, z))

\* The round constants and the initial hash value of SHA-256 (FIPS 180-4).
RoundConstants ==
    <<
       <<17034, 12184>>, <<28983, 17553>>, <<46528, 64463>>, <<59829, 56229>>,
       <<14678, 49755>>, <<23025, 4593>>, <<37439, 33444>>, <<43804, 24277>>,
       <<55303, 43672>>, <<4739, 23297>>, <<9265, 34238>>, <<21772, 32195>>,
       <<29374, 23924>>, <<32990, 45566>>, <<39900, 1703>>, <<49563, 61812>>,
       <<58523, 27073>>, <<61374, 18310>>, <<4033, 40390>>, <<9228, 41420>>,
       <<11753, 11375>>, <<19060, 33962>>, <<23728, 43484>>, <<30457, 35034>>,
       <<38974, 20818>>, <<43057, 50797>>, <<45059, 10184>>, <<48985, 32711>>,
       <<50912, 3059>>, <<54695, 37191>>, <<1738, 25425>>, <<5161, 10599>>,
       <<10167, 2693>>, <<11803, 8504>>, <<19756, 28156>>, <<21304, 3347>>,
       <<25866, 29524>>, <<30314, 2747>>, <<33218, 51502>>, <<37490, 11397>>,
       <<41663, 59553>>, <<43034, 26187>>, <<49739, 35696>>, <<51052, 20899>>,
       <<53650, 59417>>, <<54937, 1572>>, <<62478, 13701>>, <<4202, 41072>>,
       <<6564, 49430>>, <<7735, 27656>>, <<10056, 30540>>, <<13488, 48309>>,
       <<14620, 3251>>, <<20184, 43594>>, <<23452, 51791>>, <<26670, 28659>>,
       <<29839, 33518>>, <<30885, 25455>>, <<33992, 30740>>, <<36039, 520>>,
       <<37054, 65530>>, <<42064, 27883>>, <<48889, 41975>>, <<50801, 30962>>
    >>

InitialHash ==
    <<
       <<27145, 58983>>, <<47975, 44677>>, <<15470, 62322>>, <<42319, 62778>>,
       <<20750, 21119>>, <<39685, 26764>>, <<8067, 55723>>, <<23520, 52505>>
    >>

\* str.encode('utf-8'): the bytes of a sequence of code points, or a
\* UnicodeEncodeError for a lone surrogate.
RECURSIVE EncodeFrom(_, _, _)
EncodeFrom(s, i, acc) ==
    IF i > Len(s) THEN [ok |-> TRUE, bytes |-> acc]
    ELSE IF s[i] < 128 THEN EncodeFrom(s, i + 1, Append(acc, s[i]))
    ELSE IF s[i] < 2048
         THEN EncodeFrom(s, i + 1, acc \o <<192 + (s[i] \div 64), 128 + (s[i] % 64)>>)
    ELSE IF s[i] \in 55296..57343 THEN [ok |-> FALSE, bytes |-> <<>>]
    ELSE IF s[i] < 65536
         THEN EncodeFrom(s, i + 1, acc \o <<224 + (s[i] \div 4096),
                                           128 + ((s[i] \div 64) % 64),
                                           128 + (s[i] % 64)>>)
    ELSE EncodeFrom(s, i + 1, acc \o <<240 + (s[i] \div 262144),
                                      128 + ((s[i] \div 4096) % 64),
                                      128 + ((s[i] \div 64) % 64),
                                      128 + (s[i] % 64)>>)

Encode(s) == EncodeFrom(s, 1, <<>>)

\* The message followed by 0x80, zero bytes up to 56 mod 64 and the length
\* in bits as 8 bytes.
Padded(m) ==
    LET zeros == (119 - (Len(m) % 64)) % 64
        bits == Len(m) * 8
    IN  m \o <<128>> \o [i \in 1..zeros |-> 0]
          \o <<0, 0, 0, 0, (bits \div 16777216) % 256, (bits \div 65536) % 256,
               (bits \div 256) % 256, bits % 256>>

\* The 16 words of the k-th 64-byte block.
BlockWords(p, k) ==
    [t \in 1..16 |->
        LET o == 64 * (k - 1) + 4 * (t - 1)
        IN  <<(p[o + 1] * 256) + p[o + 2], (p[o + 3] * 256) + p[o + 4]>>]

RECURSIVE Schedule(_)
Schedule(w) ==
    IF Len(w) = 64 THEN w
    ELSE LET t == Len(w) + 1
         IN  Schedule(Append(w,
                 WAdd(WAdd(SmallSigma1(w[t - 2]), w[t - 7]),
                      WAdd(SmallSigma0(w[t - 15]), w[t - 16]))))

\* One round: the working variables a..h are v[1]..v[8].
Round(v, k, w) ==
    LET t1 == WAdd(WAdd(WAdd(v[8], BigSigma1(v[5])), WAdd(Ch(v[5], v[6], v[7]), k)), w)
        t2 == WAdd(BigSigma0(v[1]), Maj(v[1], v[2], v[3]))
    IN  <<WAdd(t1, t2), v[1], v[2], v[3], WAdd(v[4], t1), v[5], v[6], v[7]>>

\* The working variables after each of the 64 rounds, the last ones returned.
RECURSIVE Rounds(_, _)
Rounds(vs, w) ==
    IF Len(vs) = 65 THEN vs[65]
    ELSE Rounds(Append(vs, Round(vs[Len(vs)], RoundConstants[Len(vs)], w[Len(vs)])), w)

Compress(h, words) ==
    LET v == Rounds(<<h>>, Schedule(words))
    IN  [i \in 1..8 |-> WAdd(h[i], v[i])]

RECURSIVE Blocks(_, _, _)
Blocks(h, p, k) ==
    IF 64 * (k - 1) >= Len(p) THEN h
    ELSE Blocks(Compress(h, BlockWords(p, k)), p, k + 1)

\* hashlib.sha256(m): the eight words of the digest.
Sha256(m) == Blocks(InitialHash, Padded(m), 1)

HexDigits == <<"0", "1", "2", "3", "4", "5", "6", "7",
               "8", "9", "a", "b", "c", "d", "e", "f">>
Hex16(x) ==
    <<HexDigits[(x \div 4096) + 1], HexDigits[((x \div 256) % 16) + 1],
      HexDigits[((x \div 16) % 16) + 1], HexDigits[(x % 16) + 1]>>

RECURSIVE HexOfWords(_, _)
HexOfWords(h, i) ==
    IF i > Len(h) THEN <<>>
    ELSE Hex16(h[i][1]) \o Hex16(h[i][2]) \o HexOfWords(h, i + 1)

\* .hexdigest()
Hexdigest(h) == HexOfWords(h, 1)

\* A slice that is one character short.
get_hash_15(title) ==
    IF Encode(title).ok
    THEN SubSeq(Hexdigest(Sha256(Encode(title).bytes)), 1, 15)
    ELSE <<"UnicodeEncodeError">>

\* line 51: sha256(title.encode('utf-8')).hexdigest()[:16]
get_hash(title) ==
    IF Encode(title).ok
    THEN SubSeq(Hexdigest(Sha256(Encode(title).bytes)), 1, 16)
    ELSE <<"UnicodeEncodeError">>

\* Titles: short strings of "a" and U+00E9, and the title of a request.
TitleAlphabet == {97, 233}
ResnetTitle ==
    <<114, 101, 115, 110, 101, 116,
      45, 98, 97, 116, 99, 104, 51, 50, 45, 107, 53,
      45, 112, 97, 114, 97, 108, 108, 101, 108, 52, 45, 84, 84, 65, 48, 46, 57>>
TitleChoices == StringsUpTo(TitleAlphabet, MaxTitleLen) \cup {ResnetTitle}

\* get_hash of every title, computed once.
Digests == [s \in TitleChoices |-> get_hash(s)]

\* A call get_hash(s), line 51.
GetHash(s) ==
    /\ Len(hash_calls) < MaxHashCalls
    /\ hash_calls' = Append(hash_calls, <<s, Digests[s], op>>)
    /\ UNCHANGED <<retryVars, cmdVars, title_call>>

InitHash == RetryDefault /\ CmdInit /\ HashInit

\* get_hash called between and during the other operations.
NextHash ==
    \/ \E s \in TitleChoices : GetHash(s)
    \/ \E se \in {<<>>, <<101>>, <<169>>} :
           CheckStderrCall([args |-> <<Kubeml, Fn>>, returncode |-> 0,
                            stdout |-> <<>>, stderr |-> se])
    \/ CreateFunction(Myfn, CodeZip)
    \/ \E se \in {<<>>, <<101>>} : SubprocessRun(0, <<>>, se)
    \/ CheckOutcome
    \/ Confirm
    \/ CmdReturn

SpecHash == InitHash /\ [][NextHash]_vars

\* --------------------------------------------------------------- get_title
\* A field of the request is an int, a float (counted in hundredths) or a
\* str; an f-string renders it with str().
RECURSIVE Digits(_)
Digits(n) ==
    IF n < 10 THEN <<HexDigits[n + 1]>>
    ELSE Append(Digits(n \div 10), HexDigits[(n % 10) + 1])

\* str(n) of an int
StrInt(n) == IF n < 0 THEN <<"-">> \o Digits(0 - n) ELSE Digits(n)

\* str(x) of a float x = h / 100: the shortest decimal that reads back as x.
StrFloat(h) ==
    IF h < 0 THEN <<"-">> \o Digits((0 - h) \div 100) \o <<".">>
                    \o (IF (0 - h) % 10 = 0 THEN Digits(((0 - h) % 100) \div 10)
                        ELSE <<HexDigits[(((0 - h) % 100) \div 10) + 1],
                               HexDigits[((0 - h) % 10) + 1]>>)
    ELSE Digits(h \div 100) \o <<".">>
             \o (IF h % 10 = 0 THEN Digits((h % 100) \div 10)
                 ELSE <<HexDigits[((h % 100) \div 10) + 1], HexDigits[(h % 10) + 1]>>)

Str(v) ==
    CASE v[1] = "int" -> StrInt(v[2])
      [] v[1] = "float" -> StrFloat(v[2])
      [] v[1] = "str" -> v[2]

Resnet == <<"r", "e", "s", "n", "e", "t">>
DashName == <<"a", "-", "k", "1">>
Batch == <<"-", "b", "a", "t", "c", "h">>
K == <<"-", "k">>
Parallel == <<"-", "p", "a", "r", "a", "l", "l", "e", "l">>
TTA == <<"-", "T", "T", "A">>

Requests ==
    [function_name : {<<"str", Resnet>>, <<"str", DashName>>, <<"str", <<>> >>},
     batch_size : {<<"int", 32>>, <<"int", 128>>},
     options : [k : {<<"int", 5>>, <<"int", -1>>},
                default_parallelism : {<<"int", 4>>, <<"int", 10>>},
                goal_accuracy : {<<"float", 90>>, <<"float", 100>>,
                                 <<"float", 5>>, <<"int", 100>>}]]

\* A title with k and the parallelism in each other's place.
get_title_swapped(req) ==
    Str(req.function_name) \o Batch \o Str(req.batch_size)
        \o K \o Str(req.options.default_parallelism)
        \o Parallel \o Str(req.options.k)
        \o TTA \o Str(req.options.goal_accuracy)

\* line 45
get_title(req) ==
    Str(req.function_name) \o Batch \o Str(req.batch_size)
        \o K \o Str(req.options.k)
        \o Parallel \o Str(req.options.default_parallelism)
        \o TTA \o Str(req.options.goal_accuracy)

\* A call get_title(req), lines 44-45.
GetTitle(req) ==
    /\ title_call' = <<req, get_title(req), op>>
    /\ UNCHANGED <<retryVars, cmdVars, hash_calls>>

InitTitle == RetryDefault /\ CmdInit /\ HashInit

\* get_title called between and during the other operations.
NextTitle ==
    \/ \E req \in Requests : GetTitle(req)
    \/ \E se \in {<<>>, <<101>>} :
           CheckStderrCall([args |-> <<Kubeml, Fn>>, returncode |-> 0,
                            stdout |-> <<>>, stderr |-> se])
    \/ CreateFunction(Myfn, CodeZip)
    \/ \E se \in {<<>>, <<101>>} : SubprocessRun(0, <<>>, se)
    \/ CheckOutcome
    \/ Confirm
    \/ CmdReturn

SpecTitle == InitTitle /\ [][NextTitle]_vars

Init == RetryInit /\ CmdInit /\ HashInit

Next ==
    \/ \E c \in threads, a \in ArgValues : Call(c, a)
    \/ \E c \in threads, o \in Outcomes : Attempt(c, o)
    \/ \E c \in threads : Sleep(c)
    \/ \E c \in threads : Finish(c)

Spec == Init /\ [][Next]_vars

\* Two threads call the same wrapped function, each with its own argument.
\* One retryable error, one other error and one value are enough to take
\* every branch of the loop.
ConcOutcomes ==
    {[how |-> "return", val |-> "v1"],
     [how |-> "raise", val |-> "KeyError"],
     [how |-> "raise", val |-> "ValueError"]}

InitConc ==
    /\ total_tries \in 0..ConcTries
    /\ initial_wait \in WaitChoices
    /\ backoff_factor \in FactorChoices
    /\ exceptions = {"LookupError"}
    /\ threads = Callers
    /\ pc = Idle
    /\ args = [c \in Callers |-> None]
    /\ _tries = [c \in Callers |-> 0]
    /\ _delay = [c \in Callers |-> 0]
    /\ trace = [c \in Callers |-> <<>>]
    /\ result = [c \in Callers |-> <<"none">>]
    /\ ncalls = [c \in Callers |-> 0]
    /\ CmdInit
    /\ HashInit

NextConc ==
    \/ \E c \in threads : Call(c, IF c = 1 THEN "a1" ELSE "a2")
    \/ \E c \in threads, o \in ConcOutcomes : Attempt(c, o)
    \/ \E c \in threads : Sleep(c)
    \/ \E c \in threads : Finish(c)

SpecConc == InitConc /\ [][NextConc]_vars

\* The claims on termination assume that every invocation of the wrapped
\* function and every sleep comes to an end: a call that is in the loop
\* takes its next step.  Starting a call and taking its result are up to
\* the caller and get no fairness.
Fairness ==
    \A c \in Callers :
        /\ WF_vars(\E o \in Outcomes : Attempt(c, o))
        /\ WF_vars(Sleep(c))

SpecLive == Init /\ [][Next]_vars /\ Fairness

\* ------------------------------------------------ reading a call's trace
RECURSIVE Pow(_, _)
Pow(b, n) == IF n = 0 THEN 1 ELSE b * Pow(b, n - 1)

IsInvoke(e) == e[1] = "invoke"
IsSleep(e) == e[1] = "sleep"
Invocations(c) == SelectSeq(trace[c], IsInvoke)
NumInvocations(c) == Len(Invocations(c))
Sleeps(c) == SelectSeq(trace[c], IsSleep)
InvocationsBefore(c, i) == Len(SelectSeq(SubSeq(trace[c], 1, i), IsInvoke))

\* The error kind is one the decorator was configured to retry on.
Retryable(k) == \E cls \in exceptions : cls \in Bases(k)
FailedRetryably(e) == e[3].how = "raise" /\ Retryable(e[3].val)
FailedFatally(e) == e[3].how = "raise" /\ ~Retryable(e[3].val)
Succeeded(e) == e[3].how = "return"
AllFailedRetryably(c) ==
    \A i \in 1..NumInvocations(c) : FailedRetryably(Invocations(c)[i])
LastInvocation(c) == Invocations(c)[NumInvocations(c)]
LastEvent(c) == trace[c][Len(trace[c])]

\* C1: for total_tries >= 1, one call of the wrapper invokes the wrapped
\* operation at most total_tries times, whatever the operation does.
C1_AtMostTotalTries ==
    \A c \in Callers :
        total_tries >= 1 => NumInvocations(c) <= total_tries

C1_Witness ==
    \E c \in Callers :
        /\ pc[c] = "done"
        /\ total_tries >= 2
        /\ NumInvocations(c) = total_tries
        /\ ~AllFailedRetryably(c)

\* C2 as stated: when every invocation fails with a retryable error, the
\* call re-raises that error after exactly total_tries + 1 invocations.
C2_Original ==
    \A c \in Callers :
        (pc[c] = "done" /\ result[c][1] = "raise" /\ AllFailedRetryably(c))
            => /\ NumInvocations(c) = total_tries + 1
               /\ result[c] = <<"raise", LastInvocation(c)[3].val>>

\* C2 amended: when every invocation fails with a retryable error (and
\* total_tries >= 1), the call re-raises the error of the last invocation,
\* of unchanged kind, after exactly total_tries invocations.
C2_ExactlyTotalTries ==
    \A c \in Callers :
        (pc[c] = "done" /\ total_tries >= 1 /\ AllFailedRetryably(c))
            => /\ NumInvocations(c) = total_tries
               /\ result[c] = <<"raise", LastInvocation(c)[3].val>>

C2_Witness ==
    \E c \in Callers :
        /\ pc[c] = "done"
        /\ total_tries = 2
        /\ AllFailedRetryably(c)
        /\ NumInvocations(c) = 2
        /\ Invocations(c)[1][3].val # Invocations(c)[2][3].val
        /\ result[c] = <<"raise", Invocations(c)[2][3].val>>

\* C3: after j retryable failures and a success on invocation j+1 <=
\* total_tries, the call returns that invocation's value, every invocation
\* got the caller's arguments, nothing follows the success, and the wrapper
\* gives up on retryable failures only after total_tries invocations, so
\* that invocation j+1 is reached.
C3_ReturnsTheSuccess ==
    \A c \in Callers :
        /\ \A i \in 1..NumInvocations(c) : Invocations(c)[i][2] = args[c]
        /\ \A i \in 1..Len(trace[c]) :
               (IsInvoke(trace[c][i]) /\ Succeeded(trace[c][i]))
                   => /\ i = Len(trace[c])
                      /\ pc[c] \in {"done", "idle"}
                      /\ result[c] = <<"return", trace[c][i][3].val>>
                      /\ InvocationsBefore(c, i) <= total_tries
                      /\ \A j \in 1..(InvocationsBefore(c, i) - 1) :
                             FailedRetryably(Invocations(c)[j])
        /\ (pc[c] = "done" /\ NumInvocations(c) >= 1
                /\ FailedRetryably(LastInvocation(c)))
               => NumInvocations(c) = total_tries

C3_Witness ==
    \E c \in Callers :
        /\ total_tries = 3 /\ initial_wait = 1 /\ backoff_factor = 2
        /\ pc[c] = "done"
        /\ NumInvocations(c) = 3
        /\ FailedRetryably(Invocations(c)[1])
        /\ FailedRetryably(Invocations(c)[2])
        /\ Succeeded(Invocations(c)[3])
        /\ result[c] = <<"return", "v2">>
        /\ Sleeps(c) = << <<"sleep", 1>>, <<"sleep", 2>> >>

\* C4: an invocation that fails with an error kind outside the retryable
\* set ends the call at once with that error: the counter is not
\* decremented for it, and no message, sleep or invocation follows it.
C4_FatalPropagatesAtOnce ==
    \A c \in Callers :
        \A i \in 1..Len(trace[c]) :
            (IsInvoke(trace[c][i]) /\ FailedFatally(trace[c][i]))
                => /\ i = Len(trace[c])
                   /\ pc[c] \in {"done", "idle"}
                   /\ result[c] = <<"raise", trace[c][i][3].val>>
                   /\ _tries[c] = total_tries + 1 - (InvocationsBefore(c, i) - 1)
                   /\ Len(Sleeps(c)) = InvocationsBefore(c, i) - 1

C4_Witness ==
    \E c \in Callers :
        /\ pc[c] = "done"
        /\ NumInvocations(c) = 2
        /\ FailedRetryably(Invocations(c)[1])
        /\ FailedFatally(Invocations(c)[2])
        /\ result[c] = <<"raise", "ValueError">>
        /\ _tries[c] = total_tries

\* C5 as stated: for every total_tries >= 0, a call returns normally only
\* if some invocation of the wrapped operation returned normally, and then
\* with that invocation's value.
C5_NeverSwallows ==
    \A c \in Callers :
        (pc[c] = "done" /\ result[c][1] = "return")
            => \E i \in 1..NumInvocations(c) :
                   /\ Succeeded(Invocations(c)[i])
                   /\ result[c] = <<"return", Invocations(c)[i][3].val>>

\* C6: the sleep after the n-th retryable failure lasts
\* initial_wait * backoff_factor^(n-1), and the retry message announces
\* that same delay.
C6_GeometricDelays ==
    \A c \in Callers :
        \A i \in 1..Len(trace[c]) :
            IsSleep(trace[c][i])
                => /\ trace[c][i][2] =
                        initial_wait * Pow(backoff_factor, InvocationsBefore(c, i) - 1)
                   /\ i > 1 /\ trace[c][i - 1][1] = "retrying"
                   /\ trace[c][i - 1][3] = trace[c][i][2]
                   /\ \A j \in 1..InvocationsBefore(c, i) :
                          FailedRetryably(Invocations(c)[j])
                   /\ InvocationsBefore(c, i) = Len(SelectSeq(SubSeq(trace[c], 1, i), IsSleep))

C6_Witness ==
    \E c \in Callers :
        /\ initial_wait = 1 /\ backoff_factor = 2
        /\ Sleeps(c) = << <<"sleep", 1>>, <<"sleep", 2>> >>
        /\ NumInvocations(c) = 3

\* ---------------------------------------- reading the command's events
IsRun(e) == e[1] = "run"
IsConfirmation(e) == e = <<"print", "function created">>
Runs(s) ==
    Cardinality({i \in 1..Len(s) :
        s[i] \notin Whitespace /\ (i = 1 \/ s[i - 1] \in Whitespace)})
HasWhitespace(s) == \E i \in 1..Len(s) : s[i] \in Whitespace
InteriorWhitespace(s) ==
    \E i, j, k \in 1..Len(s) :
        /\ i < j /\ j < k
        /\ s[i] \notin Whitespace /\ s[j] \in Whitespace /\ s[k] \notin Whitespace
Executed == op = "create_function" /\ cmd_pc \in {"check", "confirm", "done"}
MyfnCommandLine == <<"k", "u", "b", "e", "m", "l", " ", "f", "n", " ", "c", "r", "e", "a", "t", "e", " ", "-", "-", "n", "a", "m", "e", " ", "m", "y", "f", "n", " ", "-", "-", "c", "o", "d", "e", " ", "c", "o", "d", "e", ".", "z", "i", "p">>

\* C7 as stated: check_stderr fails exactly when the standard error is
\* non-empty, whatever the exit status and the standard output; with empty
\* standard error it prints nothing, with non-empty standard error it
\* prints one diagnostic with the command and the decoded standard error
\* and then raises.
C7_FailsIffStderr ==
    (op = "check_stderr" /\ cmd_pc = "done")
        => /\ (cmd_result[1] = "raise") <=> (Len(res.stderr) > 0)
           /\ Len(res.stderr) = 0 => (events = <<>> /\ cmd_result = <<"return", None>>)
           /\ Len(res.stderr) > 0
                  => /\ Decode(res.stderr).ok
                     /\ events = << <<"print", "error running command", res.args,
                                      Decode(res.stderr).str>> >>
           /\ \A rc \in ReturnCodes, so \in StdoutChoices :
                  /\ check_stderr([res EXCEPT !.returncode = rc, !.stdout = so]).printed
                         = events
                  /\ (check_stderr([res EXCEPT !.returncode = rc, !.stdout = so]).raised
                         = "none") <=> (cmd_result[1] = "return")

\* C8: create_function announces, executes the command exactly once, checks
\* the outcome and confirms, in this order; "function created" is printed
\* if and only if the standard error was empty, and with non-empty standard
\* error the call ends with the error raised in check_stderr, without a
\* confirmation and without a second execution.
C8_OrderAndConfirmation ==
    op = "create_function"
        => /\ Len(events) >= 1 /\ events[1] = <<"print", "Creating function", name>>
           /\ Len(events) >= 2 => events[2] = <<"run", res.args>>
           /\ Len(events) >= 3 => events[3] = <<"check", res>>
           /\ Len(SelectSeq(events, IsRun)) <= 1
           /\ \A i \in 1..Len(events) :
                  IsConfirmation(events[i])
                      => (i = Len(events) /\ i = 4 /\ cmd_pc = "done"
                              /\ Len(res.stderr) = 0)
           /\ (cmd_pc = "done" /\ Len(res.stderr) = 0)
                  => /\ Len(events) = 4 /\ IsConfirmation(events[4])
                     /\ cmd_result = <<"return", None>>
           /\ (cmd_pc = "done" /\ Len(res.stderr) > 0)
                  => /\ cmd_result[1] = "raise" /\ cmd_result[3] = "check_stderr"
                     /\ Len(SelectSeq(events, IsRun)) = 1
                     /\ Len(SelectSeq(events, IsConfirmation)) = 0
           /\ cmd_pc = "done" => Len(events) >= 3

C8_Witness ==
    /\ op = "create_function" /\ cmd_pc = "done"
    /\ Len(res.stderr) > 0 /\ res.returncode = 0
    /\ cmd_result = <<"raise", "Exception", "check_stderr">>
    /\ Len(events) = 4

\* C9 as stated: a non-empty whitespace-free name and file give exactly the
\* 7 tokens kubeml fn create --name name --code file, and a name or file
\* that contains whitespace gives more than 7 tokens.
C9_Original ==
    Executed
        => /\ (name # <<>> /\ file # <<>> /\ ~HasWhitespace(name) /\ ~HasWhitespace(file))
                  => res.args = <<Kubeml, Fn, Create, NameFlag, name, CodeFlag, file>>
           /\ (name = Myfn /\ file = CodeZip) => command = MyfnCommandLine
           /\ (HasWhitespace(name) \/ HasWhitespace(file)) => Len(res.args) > 7

\* C9 amended: a non-empty whitespace-free name and file give exactly the
\* 7 tokens kubeml fn create --name name --code file; in general the
\* command has 5 tokens plus one per whitespace-free run of name and of
\* file, so whitespace between two non-whitespace characters of one value
\* gives more than 7 tokens when the other value has a non-whitespace
\* character, and whitespace at the start or end of a value adds no token.
C9_TokensOfTheCommand ==
    Executed
        => /\ (name # <<>> /\ file # <<>> /\ ~HasWhitespace(name) /\ ~HasWhitespace(file))
                  => res.args = <<Kubeml, Fn, Create, NameFlag, name, CodeFlag, file>>
           /\ (name = Myfn /\ file = CodeZip) => command = MyfnCommandLine
           /\ Len(res.args) = 5 + Runs(name) + Runs(file)
           /\ (InteriorWhitespace(name) /\ Runs(file) >= 1) => Len(res.args) > 7
           /\ (InteriorWhitespace(file) /\ Runs(name) >= 1) => Len(res.args) > 7
           /\ \A i \in 1..Len(res.args) :
                  res.args[i] # <<>> /\ ~HasWhitespace(res.args[i])

C9_Witness ==
    /\ Executed
    /\ name = <<"a", " ", "a">> /\ file = CodeZip
    /\ res.args = <<Kubeml, Fn, Create, NameFlag, <<"a">>, <<"a">>, CodeFlag, CodeZip>>

\* ------------------------------------------------- reading get_hash calls
LowerHex == {"0", "1", "2", "3", "4", "5", "6", "7",
             "8", "9", "a", "b", "c", "d", "e", "f"}

\* C10: every call get_hash(S) returns 16 lowercase hexadecimal characters,
\* the first 16 of the SHA-256 hex digest of the UTF-8 encoding of S (for
\* "a", U+00E9 and the resnet title the values hashlib gives), and calls
\* with the same S return the same string whatever was called in between.
C10_HashIsStable ==
    \A i \in 1..Len(hash_calls) :
        LET s == hash_calls[i][1]
            r == hash_calls[i][2]
        IN  /\ Len(r) = 16
            /\ \A k \in 1..Len(r) : r[k] \in LowerHex
            /\ \A j \in 1..Len(hash_calls) : hash_calls[j][1] = s => hash_calls[j][2] = r
            /\ s = <<>> => r = <<"e", "3", "b", "0", "c", "4", "4", "2", "9", "8", "f", "c", "1", "c", "1", "4">>
            /\ s = <<97>> => r = <<"c", "a", "9", "7", "8", "1", "1", "2", "c", "a", "1", "b", "b", "d", "c", "a">>
            /\ s = <<233>> => r = <<"4", "a", "9", "9", "5", "5", "7", "e", "4", "0", "3", "3", "c", "3", "5", "3">>
            /\ s = ResnetTitle => r = <<"f", "f", "6", "8", "d", "7", "b", "2", "5", "a", "3", "8", "a", "b", "4", "4">>

C10_Witness ==
    /\ Len(hash_calls) = 2
    /\ hash_calls[1][1] = <<233>> /\ hash_calls[2][1] = <<233>>
    /\ hash_calls[1][3] = "none" /\ hash_calls[2][3] = "create_function"
    /\ cmd_pc = "done" /\ cmd_result[1] = "raise"
    /\ hash_calls[1][2] = hash_calls[2][2]

\* ------------------------------------------------ reading get_title calls
ResnetTitleChars ==
    <<"r", "e", "s", "n", "e", "t", "-", "b", "a", "t", "c", "h", "3", "2", "-", "k", "5",
      "-", "p", "a", "r", "a", "l", "l", "e", "l", "4", "-", "T", "T", "A", "0", ".", "9">>
Called == title_call # <<>>
ResnetRequest ==
    [function_name |-> <<"str", Resnet>>, batch_size |-> <<"int", 32>>,
     options |-> [k |-> <<"int", 5>>, default_parallelism |-> <<"int", 4>>,
                  goal_accuracy |-> <<"float", 90>>]]

\* C11: get_title returns function_name, "-batch", batch_size, "-k", k,
\* "-parallel", default_parallelism, "-TTA", goal_accuracy joined in this
\* order, every field as str() renders it and nothing else; the resnet
\* request gives "resnet-batch32-k5-parallel4-TTA0.9"; the result depends
\* on the descriptor alone.
C11_TitleIsTheConcatenation ==
    Called
        => LET req == title_call[1]
               t == title_call[2]
               a == Len(Str(req.function_name))
               b == a + 6 + Len(Str(req.batch_size))
               c == b + 2 + Len(Str(req.options.k))
               d == c + 9 + Len(Str(req.options.default_parallelism))
           IN  /\ SubSeq(t, 1, a) = Str(req.function_name)
               /\ SubSeq(t, a + 1, a + 6) = Batch
               /\ SubSeq(t, a + 7, b) = Str(req.batch_size)
               /\ SubSeq(t, b + 1, b + 2) = K
               /\ SubSeq(t, b + 3, c) = Str(req.options.k)
               /\ SubSeq(t, c + 1, c + 9) = Parallel
               /\ SubSeq(t, c + 10, d) = Str(req.options.default_parallelism)
               /\ SubSeq(t, d + 1, d + 4) = TTA
               /\ SubSeq(t, d + 5, Len(t)) = Str(req.options.goal_accuracy)
               /\ req = ResnetRequest => t = ResnetTitleChars
               /\ req.function_name[1] = "str" => SubSeq(t, 1, a) = req.function_name[2]

C11_Witness ==
    /\ Called
    /\ title_call[1] = ResnetRequest
    /\ title_call[2] = ResnetTitleChars
    /\ title_call[3] = "create_function"

\* ---------------------------------------------------------- termination
InLoop(c) == pc[c] \in {"try", "sleep"}
RetryableFailures(c) == Len(SelectSeq(Invocations(c), FailedRetryably))

\* C12: for every total_tries >= 0 a call of the wrapper terminates when
\* each invocation and each sleep does: the counter starts at
\* total_tries + 1, goes down by exactly 1 on each retryable failure, never
\* goes up during a call, stays above 1 while the loop is to run again, and
\* the call ends at the latest when it reaches 1.
C12_Terminates ==
    /\ [](\A c \in Callers :
              /\ pc[c] # "idle" => _tries[c] = total_tries + 1 - RetryableFailures(c)
              /\ InLoop(c) => _tries[c] > 1
              /\ (pc[c] # "idle" /\ _tries[c] <= 1) => pc[c] = "done")
    /\ [][\A c \in Callers :
              pc[c] # "idle"
                  => /\ _tries'[c] <= _tries[c]
                     /\ _tries'[c] >= _tries[c] - 1
                     /\ _tries'[c] < _tries[c]
                            <=> RetryableFailures(c)' = RetryableFailures(c) + 1]_vars
    /\ \A c \in Callers : InLoop(c) ~> (pc[c] = "done")

C12_Witness ==
    \E c \in Callers :
        /\ pc[c] = "done"
        /\ total_tries = MaxTries
        /\ _tries[c] = 1
        /\ RetryableFailures(c) = MaxTries
        /\ ncalls[c] = 2

\* ------------------------------------------------------------- messages
IsFailed(e) == e[1] = "failed"
IsRetrying(e) == e[1] = "retrying"
Over(c) == pc[c] \in {"done", "idle"}

\* C13: a retryable failure is followed by exactly one message.  On
\* exhaustion it is the final-failure message, logged once, after which the
\* error of the last invocation is re-raised with no retry message and no
\* sleep; on every earlier retryable failure it is the retry message, never
\* the final one, and a sleep and a further invocation follow.  No message
\* is logged otherwise.
C13_MessagesOnFailure ==
    \A c \in Callers :
        LET t == trace[c]
        IN  /\ \A i \in 1..Len(t) :
                   (IsInvoke(t[i]) /\ FailedRetryably(t[i]))
                       => /\ i < Len(t)
                          /\ IsFailed(t[i + 1]) \/ IsRetrying(t[i + 1])
                          /\ IsFailed(t[i + 1])
                                 => /\ i + 1 = Len(t)
                                    /\ Over(c)
                                    /\ result[c] = <<"raise", t[i][3].val>>
                                    /\ t[i + 1] = <<"failed", total_tries, args[c]>>
                          /\ IsRetrying(t[i + 1])
                                 => /\ t[i + 1][2] = t[i][3].val
                                    /\ IF i + 1 = Len(t) THEN pc[c] = "sleep"
                                       ELSE IsSleep(t[i + 2])
                                    /\ Over(c) => InvocationsBefore(c, Len(t))
                                                      > InvocationsBefore(c, i)
            /\ \A i \in 1..Len(t) :
                   (IsFailed(t[i]) \/ IsRetrying(t[i]))
                       => /\ i > 1
                          /\ IsInvoke(t[i - 1])
                          /\ FailedRetryably(t[i - 1])
            /\ Len(SelectSeq(t, IsFailed)) <= 1
            /\ Len(SelectSeq(t, IsFailed)) + Len(SelectSeq(t, IsRetrying))
                   = RetryableFailures(c)

C13_Witness ==
    \E c \in Callers :
        /\ pc[c] = "done"
        /\ total_tries = 3
        /\ AllFailedRetryably(c)
        /\ Len(SelectSeq(trace[c], IsRetrying)) = 2
        /\ Len(SelectSeq(trace[c], IsFailed)) = 1
        /\ IsFailed(LastEvent(c))
        /\ result[c] = <<"raise", LastInvocation(c)[3].val>>
        /\ Len(Sleeps(c)) = 2

\* ----------------------------------------------------------- the sleeps
\* The position in the trace of the n-th invocation of a call.
RECURSIVE InvokeIndex(_, _, _)
InvokeIndex(c, n, i) ==
    IF IsInvoke(trace[c][i])
    THEN IF n = 1 THEN i ELSE InvokeIndex(c, n - 1, i + 1)
    ELSE InvokeIndex(c, n, i + 1)
SleepsBetween(c, i, j) == Len(SelectSeq(SubSeq(trace[c], i, j), IsSleep))

\* C14: the attempts of a call are made one after the other with exactly one
\* sleep between two consecutive invocations, no sleep before the first and
\* none after the last: a call that makes n >= 1 invocations sleeps n - 1
\* times.  While a sleep is pending the delay is still the announced one;
\* it is multiplied by the factor only once the sleep is over.
C14_OneSleepBetweenAttempts ==
    \A c \in Callers :
        LET t == trace[c]
            n == NumInvocations(c)
        IN  /\ \A k \in 1..(n - 1) :
                   SleepsBetween(c, InvokeIndex(c, k, 1), InvokeIndex(c, k + 1, 1)) = 1
            /\ n >= 1 => SleepsBetween(c, 1, InvokeIndex(c, 1, 1)) = 0
            /\ n = 0 => Len(Sleeps(c)) = 0
            /\ (Over(c) /\ n >= 1)
                   => /\ SleepsBetween(c, InvokeIndex(c, n, 1), Len(t)) = 0
                      /\ Len(Sleeps(c)) = n - 1
            /\ pc[c] = "sleep"
                   => /\ IsRetrying(LastEvent(c))
                      /\ _delay[c] = LastEvent(c)[3]
                      /\ Len(Sleeps(c)) = n - 1
            /\ (pc[c] = "try" /\ n >= 1)
                   => /\ IsSleep(LastEvent(c))
                      /\ _delay[c] = LastEvent(c)[2] * backoff_factor
                      /\ Len(Sleeps(c)) = n
            /\ pc[c] # "idle"
                   => _delay[c] = initial_wait * Pow(backoff_factor, Len(Sleeps(c)))

C14_Witness ==
    \E c \in Callers :
        /\ pc[c] = "done"
        /\ total_tries = 3 /\ initial_wait = 5 /\ backoff_factor = 3
        /\ NumInvocations(c) = 3
        /\ Len(Sleeps(c)) = 2
        /\ SleepsBetween(c, InvokeIndex(c, 1, 1), InvokeIndex(c, 2, 1)) = 1
        /\ SleepsBetween(c, InvokeIndex(c, 2, 1), InvokeIndex(c, 3, 1)) = 1
        /\ _delay[c] = 45

\* ------------------------------------------------------ attempt numbers
IsTry(e) == e[1] = "try"

\* C15: the attempt number logged before an invocation,
\* total_tries + 2 - (remaining attempts), is the ordinal of that
\* invocation within its call: 1 for the first and one more for each next
\* one; every invocation has its number logged right before it.
C15_AttemptNumberIsOrdinal ==
    \A c \in Callers :
        LET t == trace[c]
        IN  /\ \A i \in 1..Len(t) :
                   IsTry(t[i])
                       => /\ i < Len(t)
                          /\ IsInvoke(t[i + 1])
                          /\ t[i][2] = InvocationsBefore(c, i + 1)
            /\ \A i \in 1..Len(t) :
                   IsInvoke(t[i]) => i > 1 /\ IsTry(t[i - 1])
            /\ \A k \in 1..NumInvocations(c) :
                   SelectSeq(t, IsTry)[k] = <<"try", k>>
            /\ pc[c] = "try"
                   => total_tries + 2 - _tries[c] = NumInvocations(c) + 1

C15_Witness ==
    \E c \in Callers :
        /\ pc[c] = "done"
        /\ total_tries = 3
        /\ SelectSeq(trace[c], IsTry) = << <<"try", 1>>, <<"try", 2>>, <<"try", 3>> >>
        /\ NumInvocations(c) = 3
        /\ Succeeded(LastInvocation(c))

\* ----------------------------------------------------- interleaved calls
Moved(c) == trace'[c] # trace[c] \/ pc'[c] # pc[c]

\* C16: calls share no state.  Every call starts with a counter of
\* total_tries + 1 and a delay of initial_wait whatever earlier calls did,
\* and at every moment of two interleaved calls the counter and the delay
\* of each are what its own failures and sleeps make them; a step of one
\* call changes nothing of the other, and a call gives up after total_tries
\* retryable failures of its own.
C16_CallsShareNoState ==
    /\ [](\A c \in Callers :
              /\ (pc[c] # "idle" /\ trace[c] = <<>> /\ total_tries >= 1)
                     => /\ _tries[c] = total_tries + 1
                        /\ _delay[c] = initial_wait
              /\ pc[c] # "idle"
                     => /\ _tries[c] = total_tries + 1 - RetryableFailures(c)
                        /\ _delay[c] = initial_wait
                               * Pow(backoff_factor, Len(Sleeps(c)))
              /\ (pc[c] = "done" /\ total_tries >= 1 /\ AllFailedRetryably(c))
                     => NumInvocations(c) = total_tries
              /\ \A i \in 1..Len(Sleeps(c)) :
                     Sleeps(c)[i][2] = initial_wait * Pow(backoff_factor, i - 1)
              /\ \A i \in 1..NumInvocations(c) : Invocations(c)[i][2] = args[c])
    /\ [][\A c, d \in Callers :
              (c # d /\ Moved(d))
                  => UNCHANGED <<_tries[c], _delay[c], trace[c], pc[c],
                                 result[c], args[c]>>]_vars

\* The second call of caller 1 starts afresh, after an earlier call of its
\* own, while the call of caller 2 has failed once, slept and grown its delay.
C16_Witness ==
    /\ threads = {1, 2}
    /\ ncalls[1] = 2 /\ pc[1] = "try" /\ trace[1] = <<>>
    /\ _tries[1] = total_tries + 1 /\ _delay[1] = initial_wait
    /\ pc[2] = "try"
    /\ RetryableFailures(2) = 1
    /\ _tries[2] = total_tries
    /\ Len(Sleeps(2)) = 1
    /\ _delay[2] = initial_wait * backoff_factor

\* ------------------------------------------------- the final message
\* C17: whenever a call logs its final-failure message, the number of tries
\* the message reports is the number of invocations of the wrapped function
\* made in that call, and it is total_tries.
C17_ReportedTriesAreTheInvocations ==
    \A c \in Callers :
        \A i \in 1..Len(trace[c]) :
            IsFailed(trace[c][i])
                => /\ trace[c][i][2] = InvocationsBefore(c, i)
                   /\ trace[c][i][2] = NumInvocations(c)
                   /\ trace[c][i][2] = total_tries

C17_Witness ==
    \E c \in Callers :
        /\ total_tries = 2
        /\ pc[c] = "done"
        /\ IsFailed(LastEvent(c))
        /\ LastEvent(c)[2] = 2
        /\ NumInvocations(c) = 2
        /\ ncalls[c] = 1

====
